---- MODULE Spec2Model ----
(***************************************************************************)
(* A model of quarkchain/testnet/fund_testnet.py: the input loader         *)
(* (read_addr), the RPC client's retry loop (Endpoint.__sendRequest), the  *)
(* per-address funding flow (fund_shard) and the orchestrator (fund).      *)
(*                                                                         *)
(* Text is modelled as sequences of one-character strings, so that parsing *)
(* (str.split, int(s), int(s, 16), slicing) is computed, not assumed.      *)
(* A step of a coroutine is the code between two awaits.                   *)
(***************************************************************************)
EXTENDS Integers, Sequences, FiniteSets, TLC

(***************************************************************************)
(* Bounds of the model.                                                    *)
(***************************************************************************)
\* the longest input file, in lines
MaxLines == 2
\* failed attempts of client.request the endpoint produces in one run
MaxFailures == 1
\* the same, in the runs that fund a single address (RpcSpec)
MaxCallFailures == 3
\* resubmissions (line 94) after which the network confirms before the next poll
MaxResubmits == 1
\* transactions of a run whose receipt the node may report as not yet there
MaxSlowTasks == 1

(***************************************************************************)
(* Text helpers.                                                           *)
(***************************************************************************)
Whitespace == {" ", "\n"}

DecDigits == {"0", "1", "2", "3", "4", "5", "6", "7", "8", "9"}

HexDigits == DecDigits \cup {"a", "b", "c", "d", "e", "f"}

DigitVal(c) ==
    CASE c = "0" -> 0 [] c = "1" -> 1 [] c = "2" -> 2 [] c = "3" -> 3
      [] c = "4" -> 4 [] c = "5" -> 5 [] c = "6" -> 6 [] c = "7" -> 7
      [] c = "8" -> 8 [] c = "9" -> 9 [] c = "a" -> 10 [] c = "b" -> 11
      [] c = "c" -> 12 [] c = "d" -> 13 [] c = "e" -> 14 [] c = "f" -> 15

\* s[i:] of Python for 0 <= i (1-based: the characters after the first i)
DropFirst(s, i) == IF i >= Len(s) THEN <<>> ELSE SubSeq(s, i + 1, Len(s))

\* s[-n:] of Python: the last n characters, the whole string when it is shorter
LastChars(s, n) == IF Len(s) <= n THEN s ELSE SubSeq(s, Len(s) - n + 1, Len(s))

RECURSIVE DigitsValue(_, _, _, _)
DigitsValue(s, base, i, acc) ==
    IF i > Len(s) THEN acc
    ELSE DigitsValue(s, base, i + 1, acc * base + DigitVal(s[i]))

Ok(v) == [ok |-> TRUE, val |-> v]

Raise(e) == [ok |-> FALSE, err |-> e]

\* int(s): decimal digits only (the alphabet of the model has no sign, no
\* underscore and no inner whitespace); anything else raises ValueError
IntBase10(s) ==
    IF s # <<>> /\ \A i \in 1..Len(s) : s[i] \in DecDigits
    THEN Ok(DigitsValue(s, 10, 1, 0))
    ELSE Raise("ValueError")

\* int(s, 16): an optional "0x" prefix, then at least one hex digit
IntBase16(s) ==
    LET body == IF Len(s) >= 2 /\ s[1] = "0" /\ s[2] = "x" THEN DropFirst(s, 2) ELSE s
    IN  IF body # <<>> /\ \A i \in 1..Len(body) : body[i] \in HexDigits
        THEN Ok(DigitsValue(body, 16, 1, 0))
        ELSE Raise("ValueError")

\* a & b on non-negative integers
RECURSIVE BitAnd(_, _)
BitAnd(a, b) ==
    IF a = 0 \/ b = 0 THEN 0
    ELSE 2 * BitAnd(a \div 2, b \div 2) + (IF a % 2 = 1 /\ b % 2 = 1 THEN 1 ELSE 0)

\* line.split(): the maximal runs of non-whitespace characters
RECURSIVE SplitFrom(_, _, _, _)
SplitFrom(s, i, toks, cur) ==
    IF i > Len(s) THEN (IF cur = <<>> THEN toks ELSE Append(toks, cur))
    ELSE IF s[i] \in Whitespace
         THEN SplitFrom(s, i + 1, IF cur = <<>> THEN toks ELSE Append(toks, cur), <<>>)
         ELSE SplitFrom(s, i + 1, toks, Append(cur, s[i]))

Split(s) == SplitFrom(s, 1, <<>>, <<>>)

(***************************************************************************)
(* Insertion-ordered dictionaries, as sequences of <<key, value>>.         *)
(***************************************************************************)
HasKey(d, k) == \E i \in 1..Len(d) : d[i][1] = k

KeyIndex(d, k) == CHOOSE i \in 1..Len(d) : d[i][1] = k

\* a variant that keeps the value a key had first
DictSetFirstWins(d, k, v) == IF HasKey(d, k) THEN d ELSE Append(d, <<k, v>>)

\* a variant that keeps every pair, as a list of pairs would
DictSetAppend(d, k, v) == Append(d, <<k, v>>)

\* d[k] = v: a new key goes last, an old key keeps its place
DictSet(d, k, v) ==
    IF HasKey(d, k) THEN [d EXCEPT ![KeyIndex(d, k)] = <<k, v>>]
    ELSE Append(d, <<k, v>>)

\* defaultdict(list): d[k].append(v)
DictAppend(d, k, v) ==
    IF HasKey(d, k) THEN [d EXCEPT ![KeyIndex(d, k)] = <<k, Append(d[KeyIndex(d, k)][2], v)>>]
    ELSE Append(d, <<k, <<v>>>>)

(***************************************************************************)
(* The input loader.                                                       *)
(***************************************************************************)
RECURSIVE DictFromPairs(_, _, _)
DictFromPairs(pairs, i, d) ==
    IF i > Len(pairs) THEN d
    ELSE DictFromPairs(pairs, i + 1, DictSet(d, pairs[i][1], pairs[i][2]))

RECURSIVE GroupByAmount(_, _, _)
GroupByAmount(items, i, byAmount) ==
    IF i > Len(items) THEN Ok(byAmount)
    ELSE LET amount == IntBase10(items[i][2])
         IN  IF ~amount.ok THEN Raise("ValueError")
             ELSE GroupByAmount(items, i + 1, DictAppend(byAmount, amount.val, items[i][1]))

\* a variant that passes over the lines that are not two tokens
read_addr_lenient(f) ==
    LET pairs == SelectSeq([i \in 1..Len(f) |-> Split(f[i])], LAMBDA p : Len(p) = 2)
    IN  GroupByAmount(DictFromPairs(pairs, 1, <<>>), 1, <<>>)

\* line 155: dict() takes pairs, a list of any other length raises ValueError
read_addr(f) ==
    LET pairs == [i \in 1..Len(f) |-> Split(f[i])]
    IN  IF \E i \in 1..Len(f) : Len(pairs[i]) # 2 THEN Raise("ValueError")
        ELSE GroupByAmount(DictFromPairs(pairs, 1, <<>>), 1, <<>>)

(***************************************************************************)
(* The inputs of the model: the address and amount tokens, the lines, the  *)
(* files.                                                                  *)
(***************************************************************************)
Text0x == <<"0", "x">>

Zeros(n) == [i \in 1..n |-> "0"]

\* well-formed addresses: 20 bytes of recipient and 4 bytes of shard routing
AddrShard0 == Text0x \o Zeros(40) \o Zeros(7) \o <<"0">>

AddrShard1 == Text0x \o Zeros(40) \o Zeros(7) \o <<"1">>

AddrShardA == Text0x \o <<"1">> \o Zeros(39) \o Zeros(7) \o <<"a">>

\* too short for an address, while its last characters are a number
AddrShort == Text0x \o <<"1", "f">>

\* of the right length, with a character that is no hex digit at the end
AddrNotHex == Text0x \o Zeros(40) \o Zeros(7) \o <<"z">>

Line(addr, amount) == addr \o <<" ">> \o amount \o <<"\n">>

\* well-formed lines, then lines of one token, of three tokens, of no token,
\* and a line whose amount is no integer
InputLines ==
    { Line(AddrShard0, <<"5">>), Line(AddrShard1, <<"5">>), Line(AddrShardA, <<"5">>),
      Line(AddrShort, <<"5">>), Line(AddrNotHex, <<"5">>),
      Line(AddrShard0, <<"1", "0">>),
      AddrShard0 \o <<"\n">>,
      AddrShard0 \o <<" ", "5", " ", "5", "\n">>,
      <<"\n">>,
      Line(AddrShard1, <<"5", "x">>) }

InputFiles == UNION { [1..n -> InputLines] : n \in 0..MaxLines }

(***************************************************************************)
(* Addresses and transactions (quarkchain.core, quarkchain.evm).           *)
(***************************************************************************)
\* Address.createFrom(hex): 24 bytes in hex, 20 of recipient and 4 of shard id
createFrom(hex) ==
    IF Len(hex) = 48 /\ \A i \in 1..Len(hex) : hex[i] \in HexDigits
    THEN Ok([recipient |-> SubSeq(hex, 1, 40),
             fullShardId |-> DigitsValue(SubSeq(hex, 41, 48), 16, 1, 0)])
    ELSE Raise("ValueError")

\* Address.createFromIdentity(genesisId, shard)
createFromIdentity(shard) == [recipient |-> "genesis", fullShardId |-> shard]

\* a variant that signs every transaction with nonce 0
create_transaction_nonce0(address, nonce, to, networkId, amount) ==
    [nonce |-> 0, gasprice |-> 1, startgas |-> 1000000, to |-> to.recipient,
     value |-> [coef |-> amount, exp10 |-> 18], data |-> <<>>,
     fromFullShardId |-> address.fullShardId, toFullShardId |-> to.fullShardId,
     networkId |-> networkId, signedBy |-> "genesis"]

\* a variant that takes the amount for the value, without the 10 ** 18
create_transaction_unscaled(address, nonce, to, networkId, amount) ==
    [nonce |-> nonce, gasprice |-> 1, startgas |-> 1000000, to |-> to.recipient,
     value |-> [coef |-> amount, exp10 |-> 0], data |-> <<>>,
     fromFullShardId |-> address.fullShardId, toFullShardId |-> to.fullShardId,
     networkId |-> networkId, signedBy |-> "genesis"]

\* amount * 10 ** 18 is beyond the model checker's integers: a value is kept
\* as coef * 10 ** exp10
create_transaction(address, nonce, to, networkId, amount) ==
    [nonce |-> nonce, gasprice |-> 1, startgas |-> 1000000, to |-> to.recipient,
     value |-> [coef |-> amount, exp10 |-> 18], data |-> <<>>,
     fromFullShardId |-> address.fullShardId, toFullShardId |-> to.fullShardId,
     networkId |-> networkId, signedBy |-> "genesis"]

NoTx == [nonce |-> -1]

\* a variant that masks with the shard count itself
ShardOfUnmasked(addr, size) ==
    LET low == IntBase16(LastChars(addr, 8))
    IN  IF low.ok THEN Ok(BitAnd(low.val, size)) ELSE low

\* shard = int(addr[-8:], 16) & (shardSize - 1)
ShardOf(addr, size) ==
    LET low == IntBase16(LastChars(addr, 8))
    IN  IF low.ok THEN Ok(BitAnd(low.val, size - 1)) ELSE low

(***************************************************************************)
(* The endpoint (a full node): what it answers, and how it changes.        *)
(***************************************************************************)
HexChar(v) == CHOOSE c \in HexDigits : DigitVal(c) = v

RECURSIVE HexOf(_)
HexOf(n) == IF n < 16 THEN <<HexChar(n)>> ELSE HexOf(n \div 16) \o <<HexChar(n % 16)>>

ToHex(n) == Text0x \o HexOf(n)

TxHash(tx) == [hash |-> tx]

IsMined(nd, txId) == \E h \in 1..Len(nd.blocks) : nd.blocks[h].txId = txId

\* the confirmed transactions of the sender of a shard
TransactionCount(nd, address) ==
    Cardinality({ h \in 1..Len(nd.blocks) :
                    nd.blocks[h].txId.hash.fromFullShardId = address.fullShardId })

ReceiptOf(nd, txId) ==
    IF IsMined(nd, txId)
    THEN LET h == CHOOSE k \in 1..Len(nd.blocks) : nd.blocks[k].txId = txId
         IN  <<[blockHeight |-> ToHex(h), status |-> ToHex(nd.blocks[h].status)]>>
    ELSE <<>>

\* sendRawTransaction: a transaction not seen before enters the pool
Submitted(nd, tx) ==
    IF IsMined(nd, TxHash(tx)) THEN nd ELSE [nd EXCEPT !.pool = @ \cup {tx}]

Answer(nd, method, args) ==
    CASE method = "networkInfo" ->
           [networkId |-> ToHex(nd.networkId), shardSize |-> ToHex(nd.shardSize)]
      [] method = "getTransactionCount" -> ToHex(TransactionCount(nd, args))
      [] method = "sendRawTransaction" -> TxHash(args)
      [] method = "getTransactionReceipt" -> ReceiptOf(nd, args)

After(nd, method, args) ==
    IF method = "sendRawTransaction" THEN Submitted(nd, args) ELSE nd

(***************************************************************************)
(* The state.                                                              *)
(***************************************************************************)
VARIABLES
    file,          \* f.readlines() of --tqkc_file
    node,          \* the endpoint: its network, its pool, its mined transactions
    budget,        \* failed attempts the endpoint may still produce
    pc,            \* where main()/fund() stands
    err,           \* the exception that ended the run and where it was raised
    addrByAmount,  \* read_addr's result: amount -> [addr]
    networkId,
    shardSize,
    amountIdx,     \* the position of `for amount in addrByAmount`
    byShard,       \* shard -> [addr]
    toFund,
    fundIdx,       \* the position of `for addr in toFund`
    futures,       \* the coroutines of the batch, as indices into tasks
    tasks,         \* every fund_shard coroutine created so far
    rpc,           \* the __sendRequest call of main (0) and of each task
    batch,         \* rounds started so far
    printed,       \* the result lines printed so far
    skipped        \* the addresses reported as "addr format invalid"

vars == <<file, node, budget, pc, err, addrByAmount, networkId, shardSize, amountIdx,
          byShard, toFund, fundIdx, futures, tasks, rpc, batch, printed, skipped>>

mainVars == <<pc, err, addrByAmount, networkId, shardSize, amountIdx, byShard, toFund,
              fundIdx, futures, batch, printed, skipped>>

\* the shard counts and the network id an endpoint reports
ShardSizes == {1, 2, 4}

NetworkIds == {3}

IdleCall ==
    [method |-> "", args |-> <<>>, state |-> "idle", wire |-> <<>>,
     timeouts |-> 0, rejections |-> 0, delay |-> 0]

\* the state main() starts in, for given input files and a given number of
\* failed attempts
Start(files, failed) ==
    /\ file \in files
    /\ node \in [shardSize : ShardSizes, networkId : NetworkIds, pool : {{}}, blocks : {<<>>}]
    /\ budget = failed
    /\ pc = "main"
    /\ err = <<>>
    /\ addrByAmount = <<>>
    /\ networkId = 0
    /\ shardSize = 0
    /\ amountIdx = 0
    /\ byShard = <<>>
    /\ toFund = <<>>
    /\ fundIdx = 0
    /\ futures = <<>>
    /\ tasks = <<>>
    /\ rpc = [c \in {0} |-> IdleCall]
    /\ batch = 0
    /\ printed = <<>>
    /\ skipped = <<>>

Init == Start(InputFiles, MaxFailures)

\* the runs over one line of input, where a call may fail again and again
RpcInit == Start({ <<line>> : line \in InputLines }, MaxCallFailures)

(***************************************************************************)
(* Endpoint.__sendRequest.                                                 *)
(***************************************************************************)
\* random.randint(a, b): both ends included
randint(a, b) == a..b

\* a variant without the base of one time unit
BackoffWithoutBase(r) == r

\* asyncio.sleep(1 + random.randint(0, 5))
BackoffOf(r) == 1 + r

\* a variant that catches error responses only
RetriedResponseOnly(kind) == kind = "response"

\* `except Exception`: whatever client.request raises is caught and retried
Retried(kind) == kind \in {"transport", "response"}

\* client.request(*args): the attempt goes on the wire
Attempt(call) ==
    [call EXCEPT !.state = "waiting", !.delay = 0,
                 !.wire = Append(@, [method |-> call.method, args |-> call.args])]

NewCall(method, args) ==
    Attempt([IdleCall EXCEPT !.method = method, !.args = args])

Callers == DOMAIN rpc

\* client.request raises: a transport failure (a timeout, a lost connection; the
\* request may or may not have reached the node) or an error response
RequestFails(c, kind) ==
    /\ pc \notin {"done", "aborted"}
    /\ rpc[c].state = "waiting"
    /\ budget > 0
    /\ budget' = budget - 1
    /\ node' \in IF kind = "transport"
                 THEN {node, After(node, rpc[c].method, rpc[c].args)} ELSE {node}
    /\ LET counted == IF kind = "transport"
                      THEN [rpc[c] EXCEPT !.timeouts = @ + 1]
                      ELSE [rpc[c] EXCEPT !.rejections = @ + 1]
       IN  IF Retried(kind)
           THEN /\ \E r \in randint(0, 5) :
                     rpc' = [rpc EXCEPT ![c] = [counted EXCEPT !.state = "backoff",
                                                               !.delay = BackoffOf(r)]]
                /\ UNCHANGED <<pc, err, tasks>>
           ELSE /\ rpc' = [rpc EXCEPT ![c] = [counted EXCEPT !.state = "raised"]]
                /\ pc' = "aborted"
                /\ err' = <<"__sendRequest", kind>>
                /\ tasks' = IF c = 0 THEN tasks ELSE [tasks EXCEPT ![c].pc = "raised"]
    /\ UNCHANGED <<file, addrByAmount, networkId, shardSize, amountIdx, byShard, toFund,
                   fundIdx, futures, batch, printed, skipped>>

RequestTimesOut == \E c \in Callers : RequestFails(c, "transport")

RequestRejected == \E c \in Callers : RequestFails(c, "response")

\* the sleep of line 34 is over: the loop sends the call again
BackoffEnds(c) ==
    /\ pc \notin {"done", "aborted"}
    /\ rpc[c].state = "backoff"
    /\ rpc' = [rpc EXCEPT ![c] = Attempt(rpc[c])]
    /\ UNCHANGED <<file, node, budget, tasks>>
    /\ UNCHANGED mainVars

BackoffElapsed == \E c \in Callers : BackoffEnds(c)

\* the response of the call of c, and the node after it
Response(c) == Answer(node, rpc[c].method, rpc[c].args)

Served(c) == After(node, rpc[c].method, rpc[c].args)

(***************************************************************************)
(* main() and fund().                                                      *)
(***************************************************************************)
\* lines 176-178, 107: the file is loaded, then fund() asks for the network id
ReadInput ==
    /\ pc = "main"
    /\ LET loaded == read_addr(file)
       IN  IF loaded.ok
           THEN /\ addrByAmount' = loaded.val
                /\ pc' = "getNetworkId"
                /\ rpc' = [rpc EXCEPT ![0] = NewCall("networkInfo", <<>>)]
                /\ err' = err
           ELSE /\ pc' = "aborted"
                /\ err' = <<"read_addr", loaded.err>>
                /\ UNCHANGED <<addrByAmount, rpc>>
    /\ UNCHANGED <<file, node, budget, networkId, shardSize, amountIdx, byShard, toFund,
                   fundIdx, futures, tasks, batch, printed, skipped>>

\* lines 56-58, 108
NetworkIdReturns ==
    /\ pc = "getNetworkId"
    /\ rpc[0].state = "waiting"
    /\ networkId' = IntBase16(Response(0).networkId).val
    /\ node' = Served(0)
    /\ rpc' = [rpc EXCEPT ![0] = NewCall("networkInfo", <<>>)]
    /\ pc' = "getShardSize"
    /\ UNCHANGED <<file, budget, err, addrByAmount, shardSize, amountIdx, byShard, toFund,
                   fundIdx, futures, tasks, batch, printed, skipped>>

\* lines 52-54, then the first `for amount`
ShardSizeReturns ==
    /\ pc = "getShardSize"
    /\ rpc[0].state = "waiting"
    /\ shardSize' = IntBase16(Response(0).shardSize).val
    /\ node' = Served(0)
    /\ rpc' = [rpc EXCEPT ![0] = IdleCall]
    /\ amountIdx' = 1
    /\ pc' = "group"
    /\ UNCHANGED <<file, budget, err, addrByAmount, networkId, byShard, toFund,
                   fundIdx, futures, tasks, batch, printed, skipped>>

\* lines 117-120: byShard, or the ValueError of int(addr[-8:], 16)
RECURSIVE GroupByShard(_, _, _, _)
GroupByShard(addrs, size, i, acc) ==
    IF i > Len(addrs) THEN Ok(acc)
    ELSE LET shard == ShardOf(addrs[i], size)
         IN  IF ~shard.ok THEN shard
             ELSE GroupByShard(addrs, size, i + 1, DictAppend(acc, shard.val, addrs[i]))

\* lines 109-120
GroupAmount ==
    /\ pc = "group"
    /\ IF amountIdx > Len(addrByAmount)
       THEN /\ pc' = "done"
            /\ UNCHANGED <<byShard, err>>
       ELSE LET grouped == GroupByShard(addrByAmount[amountIdx][2], shardSize, 1, <<>>)
            IN  IF grouped.ok
                THEN /\ byShard' = grouped.val
                     /\ pc' = "round"
                     /\ err' = err
                ELSE /\ pc' = "aborted"
                     /\ err' = <<"fund", grouped.err>>
                     /\ byShard' = byShard
    /\ UNCHANGED <<file, node, budget, addrByAmount, networkId, shardSize, amountIdx,
                   toFund, fundIdx, futures, tasks, rpc, batch, printed, skipped>>

\* a variant that takes the first entry of the list
PopFirst(queue) ==
    IF queue = <<>> THEN [popped |-> <<>>, rest |-> <<>>]
    ELSE [popped |-> <<queue[1]>>, rest |-> Tail(queue)]

\* a variant that empties the list in one round
PopEvery(queue) == [popped |-> queue, rest |-> <<>>]

\* lines 125-126: addrs.pop() of a list that is not empty
PopLast(queue) ==
    IF queue = <<>> THEN [popped |-> <<>>, rest |-> <<>>]
    ELSE [popped |-> <<queue[Len(queue)]>>, rest |-> SubSeq(queue, 1, Len(queue) - 1)]

\* lines 123-126: toFund, over byShard.values() in dict order
RECURSIVE PopEach(_, _)
PopEach(d, i) ==
    IF i > Len(d) THEN <<>> ELSE PopLast(d[i][2]).popped \o PopEach(d, i + 1)

AfterPop(d) == [i \in 1..Len(d) |-> <<d[i][1], PopLast(d[i][2]).rest>>]

\* a variant that also stops when a single address was popped
RoundsOverBelowTwo(popped) == Len(popped) < 2

\* lines 128-129: `if not toFund: break`
RoundsOver(popped) == popped = <<>>

\* lines 122-131
PopRound ==
    /\ pc = "round"
    /\ LET popped == PopEach(byShard, 1)
       IN  /\ toFund' = popped
           /\ byShard' = AfterPop(byShard)
           /\ IF RoundsOver(popped)
              THEN /\ pc' = "group"
                   /\ amountIdx' = amountIdx + 1
                   /\ UNCHANGED <<futures, fundIdx, batch>>
              ELSE /\ pc' = "launch"
                   /\ futures' = <<>>
                   /\ fundIdx' = 1
                   /\ batch' = batch + 1
                   /\ amountIdx' = amountIdx
    /\ UNCHANGED <<file, node, budget, err, addrByAmount, networkId, shardSize,
                   tasks, rpc, printed, skipped>>

\* a fund_shard coroutine that has not run yet
NewTask(addr, to, shard, amount, b) ==
    [addr |-> addr, to |-> to, shard |-> shard, amount |-> amount, batch |-> b,
     pc |-> "created", nonce |-> -1, tx |-> NoTx, txId |-> TxHash(NoTx), cnt |-> 0,
     height |-> -1, status |-> -1,
     \* history: the sendTransaction calls made (each with the empty polls that
     \* came since the one before), the ids polled, the empty polls since the
     \* last sendTransaction, whether any poll came back empty
     submitted |-> <<>>, polled |-> {}, idle |-> 0, slow |-> FALSE]

\* lines 132-143, one address of toFund
Launch ==
    /\ pc = "launch"
    /\ fundIdx <= Len(toFund)
    /\ LET addr  == toFund[fundIdx]
           shard == ShardOf(addr, shardSize)
           to    == createFrom(DropFirst(addr, 2))
           i     == Len(tasks) + 1
       IN  IF to.ok
           THEN /\ tasks' = Append(tasks, NewTask(addr, to.val, shard.val,
                                                  addrByAmount[amountIdx][1], batch))
                /\ rpc' = [c \in 0..i |-> IF c < i THEN rpc[c] ELSE IdleCall]
                /\ futures' = Append(futures, i)
                /\ skipped' = skipped
           ELSE /\ skipped' = Append(skipped, addr)
                /\ UNCHANGED <<tasks, rpc, futures>>
    /\ fundIdx' = fundIdx + 1
    /\ UNCHANGED <<file, node, budget, pc, err, addrByAmount, networkId, shardSize,
                   amountIdx, byShard, toFund, batch, printed>>

\* line 145, going in: every coroutine of the batch becomes a task and runs up
\* to its first await (lines 78-79, 47-49)
Gather ==
    /\ pc = "launch"
    /\ fundIdx > Len(toFund)
    /\ pc' = "gather"
    /\ tasks' = [i \in 1..Len(tasks) |->
                    IF tasks[i].pc = "created" THEN [tasks[i] EXCEPT !.pc = "getNonce"]
                    ELSE tasks[i]]
    /\ rpc' = [c \in DOMAIN rpc |->
                    IF c > 0 /\ tasks[c].pc = "created"
                    THEN NewCall("getTransactionCount", createFromIdentity(tasks[c].shard))
                    ELSE rpc[c]]
    /\ UNCHANGED <<file, node, budget, err, addrByAmount, networkId, shardSize,
                   amountIdx, byShard, toFund, fundIdx, futures, batch, printed, skipped>>

\* a variant that goes on when the first task is done
GatherFirstDone(ts, fs) == fs = <<>> \/ \E k \in 1..Len(fs) : ts[fs[k]].pc = "returned"

\* asyncio.gather(*futures) is done when every one of its tasks is
GatherDone(ts, fs) == \A k \in 1..Len(fs) : ts[fs[k]].pc = "returned"

\* a variant that lists the results in the order of confirmation
ResultLinesByHeight(ts, fs, b) ==
    LET done == SortSeq(fs, LAMBDA x, y : ts[x].height < ts[y].height)
    IN  [k \in 1..Len(fs) |->
            [batch |-> b, idx |-> k - 1, height |-> ts[done[k]].height,
             txId |-> ts[done[k]].txId]]

\* lines 145-149, coming out: the results, in the order of futures, are printed
ResultLines(ts, fs, b) ==
    [k \in 1..Len(fs) |->
        [batch |-> b, idx |-> k - 1, height |-> ts[fs[k]].height, txId |-> ts[fs[k]].txId]]

PrintResults ==
    /\ pc = "gather"
    /\ GatherDone(tasks, futures)
    /\ printed' = printed \o ResultLines(tasks, futures, batch)
    /\ pc' = "round"
    /\ UNCHANGED <<file, node, budget, err, addrByAmount, networkId, shardSize,
                   amountIdx, byShard, toFund, fundIdx, futures, tasks, rpc, batch, skipped>>

(***************************************************************************)
(* fund_shard.                                                             *)
(***************************************************************************)
Running == pc \notin {"done", "aborted"}

\* lines 79-81: the nonce is back, the transaction is built once and submitted
NonceReturns(i) ==
    /\ Running
    /\ tasks[i].pc = "getNonce"
    /\ rpc[i].state = "waiting"
    /\ LET nonce == IntBase16(Response(i)).val
           tx    == create_transaction(createFromIdentity(tasks[i].shard), nonce,
                                       tasks[i].to, networkId, tasks[i].amount)
       IN  /\ tasks' = [tasks EXCEPT ![i].pc = "sendTransaction",
                                     ![i].nonce = nonce,
                                     ![i].tx = tx,
                                     ![i].submitted = Append(@, [tx |-> tx, after |-> 0])]
           /\ rpc' = [rpc EXCEPT ![i] = NewCall("sendRawTransaction", tx)]
    /\ node' = Served(i)
    /\ UNCHANGED <<file, budget>>
    /\ UNCHANGED mainVars

\* lines 81-86: the transaction id is kept, the flow sleeps before its first poll
SubmitReturns(i) ==
    /\ Running
    /\ tasks[i].pc = "sendTransaction"
    /\ rpc[i].state = "waiting"
    /\ tasks' = [tasks EXCEPT ![i].pc = "sleep", ![i].txId = Response(i), ![i].cnt = 0]
    /\ rpc' = [rpc EXCEPT ![i] = IdleCall]
    /\ node' = Served(i)
    /\ UNCHANGED <<file, budget>>
    /\ UNCHANGED mainVars

\* lines 86-87: asyncio.sleep(5) is over, the receipt is asked for
PollWake(i) ==
    /\ Running
    /\ tasks[i].pc = "sleep"
    /\ tasks' = [tasks EXCEPT ![i].pc = "getTransactionReceipt",
                              ![i].polled = @ \cup {tasks[i].txId}]
    /\ rpc' = [rpc EXCEPT ![i] = NewCall("getTransactionReceipt", tasks[i].txId)]
    /\ UNCHANGED <<file, node, budget>>
    /\ UNCHANGED mainVars

\* a variant that resubmits one poll early
ResubmitEarly(cnt) == cnt = 9

\* line 91
ResubmitDue(cnt) == cnt = 10

\* line 94: what is sent again
ResentTx(task) == task.tx

\* a variant that takes a receipt with a failed status for no receipt
ReceiptSucceeded(resp) == resp # <<>> /\ resp[1].status = ToHex(1)

\* line 88, `if resp:`: None is what an unconfirmed transaction is answered
ReceiptFound(resp) == resp # <<>>

\* the tasks that were answered an empty receipt
SlowTasks == { i \in 1..Len(tasks) : tasks[i].slow }

\* the network is slow for MaxSlowTasks transactions of a run, and confirms
\* before a resubmission beyond MaxResubmits falls due
EmptyAllowed(i) ==
    /\ i \in SlowTasks \/ Cardinality(SlowTasks) < MaxSlowTasks
    /\ Len(tasks[i].submitted) <= MaxResubmits \/ tasks[i].cnt + 1 < 10

\* lines 87-103
ReceiptReturns(i) ==
    /\ Running
    /\ tasks[i].pc = "getTransactionReceipt"
    /\ rpc[i].state = "waiting"
    /\ node' = Served(i)
    /\ LET resp == Response(i)
           cnt  == tasks[i].cnt + 1
       IN  IF ReceiptFound(resp)
           THEN /\ tasks' = [tasks EXCEPT ![i].pc = "returned",
                                          ![i].cnt = 0,
                                          ![i].idle = 0,
                                          ![i].height = IntBase16(resp[1].blockHeight).val,
                                          ![i].status = IntBase16(resp[1].status).val]
                /\ rpc' = [rpc EXCEPT ![i] = IdleCall]
           ELSE /\ EmptyAllowed(i)
                /\ IF ResubmitDue(cnt)
                   THEN /\ tasks' = [tasks EXCEPT
                               ![i].pc = "resend",
                               ![i].cnt = 0,
                               ![i].idle = 0,
                               ![i].slow = TRUE,
                               ![i].submitted = Append(@, [tx |-> ResentTx(tasks[i]),
                                                          after |-> tasks[i].idle + 1])]
                        /\ rpc' = [rpc EXCEPT
                               ![i] = NewCall("sendRawTransaction", ResentTx(tasks[i]))]
                   ELSE /\ tasks' = [tasks EXCEPT ![i].pc = "sleep",
                                                  ![i].cnt = cnt,
                                                  ![i].slow = TRUE,
                                                  ![i].idle = @ + 1]
                        /\ rpc' = [rpc EXCEPT ![i] = IdleCall]
    /\ UNCHANGED <<file, budget>>
    /\ UNCHANGED mainVars

\* lines 94, 83-86: the answer to a resubmission is dropped, the loop goes on
ResubmitReturns(i) ==
    /\ Running
    /\ tasks[i].pc = "resend"
    /\ rpc[i].state = "waiting"
    /\ tasks' = [tasks EXCEPT ![i].pc = "sleep"]
    /\ rpc' = [rpc EXCEPT ![i] = IdleCall]
    /\ node' = Served(i)
    /\ UNCHANGED <<file, budget>>
    /\ UNCHANGED mainVars

FlowStep(i) ==
    \/ NonceReturns(i)
    \/ SubmitReturns(i)
    \/ PollWake(i)
    \/ ReceiptReturns(i)
    \/ ResubmitReturns(i)

(***************************************************************************)
(* The network.                                                            *)
(***************************************************************************)
\* a pooled transaction whose nonce is the next of its sender gets into a block
Mine ==
    /\ Running
    /\ \E tx \in node.pool, status \in {0, 1} :
          /\ tx.nonce = TransactionCount(node, createFromIdentity(tx.fromFullShardId))
          /\ node' = [node EXCEPT !.pool = @ \ {tx},
                                  !.blocks = Append(@, [txId |-> TxHash(tx),
                                                        status |-> status])]
    /\ UNCHANGED <<file, budget, tasks, rpc>>
    /\ UNCHANGED mainVars

Next ==
    \/ ReadInput
    \/ NetworkIdReturns
    \/ ShardSizeReturns
    \/ GroupAmount
    \/ PopRound
    \/ Launch
    \/ Gather
    \/ PrintResults
    \/ \E i \in 1..Len(tasks) : FlowStep(i)
    \/ RequestTimesOut
    \/ RequestRejected
    \/ BackoffElapsed
    \/ Mine

Spec == Init /\ [][Next]_vars

RpcSpec == RpcInit /\ [][Next]_vars

\* read_addr alone, applied to every input file
LoadSpec == Init /\ [][ReadInput]_vars

\* the event loop runs every coroutine that can run, a sleep ends, a request is
\* answered, and the network mines what is in its pool; a failed attempt is
\* never owed
Progress ==
    \/ ReadInput
    \/ NetworkIdReturns
    \/ ShardSizeReturns
    \/ GroupAmount
    \/ PopRound
    \/ Launch
    \/ Gather
    \/ PrintResults
    \/ \E i \in 1..Len(tasks) : FlowStep(i)
    \/ BackoffElapsed
    \/ Mine

LiveSpec == RpcInit /\ [][Next]_vars /\ WF_vars(Progress)

(***************************************************************************)
(* Properties.                                                             *)
(***************************************************************************)
\* a flow that was started and has not returned
Outstanding(i) == tasks[i].pc \notin {"created", "returned"}

SameShard(i, j) == tasks[i].shard = tasks[j].shard

\* C1: at every point of a run and for every shard, at most one fund_shard
\* flow of that shard is started and not yet returned, within a round, across
\* the rounds of an amount and across amounts.
C1_OneFlowPerShard ==
    \A i, j \in 1..Len(tasks) :
        (i # j /\ Outstanding(i) /\ Outstanding(j)) => ~SameShard(i, j)

\* a second flow of a shard is under way, the first one has returned
C1_Witness ==
    \E i, j \in 1..Len(tasks) :
        i < j /\ SameShard(i, j) /\ tasks[i].pc = "returned" /\ Outstanding(j)

\* C2: of two flows of one shard, the later one submits only after the earlier
\* one has its receipt, with a strictly greater nonce, and the two are never
\* under way together.
C2_SameShardInTurn ==
    \A i, j \in 1..Len(tasks) :
        (i < j /\ SameShard(i, j)) =>
            /\ tasks[j].submitted # <<>> =>
                   tasks[i].pc = "returned" /\ tasks[i].height >= 1
            /\ tasks[j].tx.nonce >= 0 =>
                   tasks[i].tx.nonce >= 0 /\ tasks[j].tx.nonce > tasks[i].tx.nonce
            /\ ~(Outstanding(i) /\ Outstanding(j))

\* two flows of one shard have both submitted, with nonces 0 and 1
C2_Witness ==
    \E i, j \in 1..Len(tasks) :
        /\ i < j /\ SameShard(i, j)
        /\ tasks[i].tx.nonce = 0 /\ tasks[j].tx.nonce = 1
        /\ tasks[j].submitted # <<>>

\* C3: a flow resubmits exactly after 10 empty polls in a row since its last
\* submission, its counter then restarts at 0, what it resubmits is the
\* transaction built at its start, and it polls the id of its first submission.
C3_ResubmitSameTx ==
    \A i \in 1..Len(tasks) :
        LET t == tasks[i]
        IN  /\ t.idle < 10
            /\ t.cnt = t.idle
            /\ \A k \in 1..Len(t.submitted) :
                   /\ t.submitted[k].tx = t.tx
                   /\ t.submitted[k].after = IF k = 1 THEN 0 ELSE 10
            /\ t.polled \subseteq {t.txId}
            /\ t.polled # {} => t.txId = TxHash(t.submitted[1].tx)
            /\ rpc[i].method = "sendRawTransaction" =>
                   \A k \in 1..Len(rpc[i].wire) : rpc[i].wire[k].args = t.tx

\* a flow has resubmitted and has polled in vain again since
C3_Witness ==
    \E i \in 1..Len(tasks) : Len(tasks[i].submitted) = 2 /\ tasks[i].idle > 0

\* C4: a call that was answered with an error response is not sent again: the
\* error is raised to the flow that made the call.
C4_ErrorResponseRaised ==
    \A c \in Callers : rpc[c].rejections > 0 => rpc[c].state = "raised"

\* C5: after a transport failure the same method with the same arguments is
\* sent again, after a backoff and whatever the number of failures so far: an
\* attempt is on the wire once more than attempts have failed (k + 1 times
\* after k transport failures), and no failure reaches the caller.
C5_TransportRetried ==
    /\ err = <<>> \/ err[1] # "__sendRequest"
    /\ \A c \in Callers :
         LET r == rpc[c]
         IN  /\ r.state \in {"idle", "waiting", "backoff"}
             /\ r.state = "waiting" => Len(r.wire) = r.timeouts + r.rejections + 1
             /\ r.state = "backoff" =>
                    /\ Len(r.wire) = r.timeouts + r.rejections
                    /\ r.delay >= 1
                    /\ ENABLED BackoffEnds(c)
             /\ \A k \in 1..Len(r.wire) :
                    r.wire[k] = [method |-> r.method, args |-> r.args]

\* a call is on the wire for the third time, after two transport failures
C5_Witness ==
    \E c \in Callers :
        /\ rpc[c].state = "waiting"
        /\ rpc[c].timeouts = 2 /\ rpc[c].rejections = 0
        /\ Len(rpc[c].wire) = 3

\* C6, as claimed: every backoff delay is in [1, 6).
C6_DelayBelowSix ==
    \A c \in Callers : rpc[c].state = "backoff" => rpc[c].delay >= 1 /\ rpc[c].delay < 6

\* C6, amended: every backoff delay is a whole number in [1, 6], 6 included.
C6_DelayAtMostSix ==
    \A c \in Callers : rpc[c].state = "backoff" => rpc[c].delay \in 1..6

\* a call sleeps 6 time units before its next attempt
C6_Witness ==
    \E c \in Callers : rpc[c].state = "backoff" /\ rpc[c].delay = 6

\* C7: while a flow of a batch has not returned, no result line of the batch
\* is printed and nothing is popped for a next round or a next amount.
C7_PrintAfterAll ==
    /\ \A k \in 1..Len(printed) : \A i \in 1..Len(tasks) :
           tasks[i].batch = printed[k].batch => tasks[i].pc = "returned"
    /\ \A i \in 1..Len(tasks) :
           tasks[i].pc # "returned" =>
               /\ tasks[i].batch = batch
               /\ pc \in {"launch", "gather"}
               /\ \E k \in 1..Len(futures) : futures[k] = i

\* the flow launched second has returned, the first has not: nothing of the
\* batch is printed
C7_Witness ==
    /\ pc = "gather"
    /\ Len(futures) = 2
    /\ tasks[futures[2]].pc = "returned"
    /\ Outstanding(futures[1])
    /\ \A k \in 1..Len(printed) : printed[k].batch # batch

\* the address strings of the input file, and how each was dealt with
FileAddrs == { Split(file[l])[1] : l \in 1..Len(file) }

LaunchedFor(a) == { i \in 1..Len(tasks) : tasks[i].addr = a }

SkipsOf(a) == { k \in 1..Len(skipped) : skipped[k] = a }

ParseFails(a) == ~createFrom(DropFirst(a, 2)).ok

\* C8: an address that fails address parsing is reported and skipped: no flow,
\* no requeueing, no result line, and the run does not abort.
C8_BadAddressSkipped ==
    /\ err = <<>> \/ err[1] # "fund"
    /\ \A i \in 1..Len(tasks) : ~ParseFails(tasks[i].addr)
    /\ \A k \in 1..Len(skipped) : ParseFails(skipped[k]) /\ Cardinality(SkipsOf(skipped[k])) = 1
    /\ pc = "done" =>
           \A a \in FileAddrs : ParseFails(a) => Cardinality(SkipsOf(a)) = 1

\* C9: when fund() returns normally, every distinct address of the input was
\* dealt with exactly once, by one flow that returned with a receipt or by one
\* skip, and no shard queue holds anything.
C9_EachAddressOnce ==
    pc = "done" =>
        /\ \A a \in FileAddrs :
               /\ Cardinality(LaunchedFor(a)) + Cardinality(SkipsOf(a)) = 1
               /\ \A i \in LaunchedFor(a) :
                      tasks[i].pc = "returned" /\ tasks[i].height >= 1
        /\ \A i \in 1..Len(tasks) : tasks[i].addr \in FileAddrs
        /\ \A q \in 1..Len(byShard) : byShard[q][2] = <<>>
        /\ toFund = <<>>

\* fund() has returned after one flow and one skip
C9_Witness ==
    /\ pc = "done"
    /\ Len(tasks) = 1
    /\ Len(skipped) = 1

\* C10: once fund() runs, it ends with every round of every amount done.
C10_AllRoundsComplete == (pc = "getNetworkId") ~> (pc = "done")

\* fund() ends, by returning or by raising
Terminates == (pc = "getNetworkId") ~> (pc \in {"done", "aborted"})

\* the block of a confirmed transaction
BlockOf(txId) == CHOOSE h \in 1..Len(node.blocks) : node.blocks[h].txId = txId

\* C11: a flow returns exactly on the first answer to a receipt poll that is
\* not empty, with the height and the status of that receipt whatever the
\* status is; an empty answer sends it back to sleep or to a resubmission and
\* never makes it return; once returned it submits and polls nothing more.
C11_ReturnsOnFirstReceipt ==
    [][\A i \in 1..Len(tasks) :
          LET t == tasks[i]
              u == tasks'[i]
          IN  /\ t.pc = "returned" => u = t /\ rpc'[i] = rpc[i] /\ rpc[i].state = "idle"
              /\ t.pc # "returned" => t.height = -1 /\ t.status = -1
              /\ (t.pc = "getTransactionReceipt" /\ u # t) =>
                     IF IsMined(node, t.txId)
                     THEN /\ u.pc = "returned"
                          /\ u.height = BlockOf(t.txId)
                          /\ u.status = node.blocks[BlockOf(t.txId)].status
                          /\ u.submitted = t.submitted
                     ELSE u.pc \in {"sleep", "resend"}
              /\ (t.pc # "returned" /\ u.pc = "returned") =>
                     t.pc = "getTransactionReceipt" /\ IsMined(node, t.txId)
      ]_vars

\* a flow has returned with the receipt of a failed transaction, after polls
\* that found nothing
C11_Witness ==
    \E i \in 1..Len(tasks) :
        tasks[i].pc = "returned" /\ tasks[i].status = 0 /\ tasks[i].slow

\* the low 32 bits of a valid address: the shard id its 24 bytes end with
Low32(a) == createFrom(DropFirst(a, 2)).val.fullShardId

\* C12: for a valid address the shard is its low 32 bits modulo the (power of
\* two) shard count, lies in [0, shardCount), and is the same where the
\* address is queued, where its flow is created, and in the sender identity
\* the flow asks the nonce for and signs with.
C12_ShardStable ==
    /\ \A q \in 1..Len(byShard) : \A k \in 1..Len(byShard[q][2]) :
           LET a == byShard[q][2][k]
           IN  ~ParseFails(a) =>
                   /\ byShard[q][1] = Low32(a) % shardSize
                   /\ byShard[q][1] \in 0..(shardSize - 1)
    /\ \A i \in 1..Len(tasks) :
           LET t == tasks[i]
           IN  /\ t.shard = Low32(t.addr) % shardSize
               /\ t.shard \in 0..(shardSize - 1)
               /\ t.tx # NoTx => t.tx.fromFullShardId = t.shard
               /\ rpc[i].method = "getTransactionCount" =>
                      rpc[i].args = createFromIdentity(Low32(t.addr) % shardSize)

\* of two addresses whose low 32 bits are 0 and 10, with 4 shards, one is still
\* queued under shard 0 and the other has its transaction signed by the sender
\* of shard 2
C12_Witness ==
    /\ shardSize = 4
    /\ \E q \in 1..Len(byShard) : byShard[q][1] = 0 /\ byShard[q][2] # <<>>
    /\ \E i \in 1..Len(tasks) :
           Low32(tasks[i].addr) = 10 /\ tasks[i].shard = 2 /\ tasks[i].tx # NoTx

\* every line is an address and a decimal amount
WellFormed ==
    \A l \in 1..Len(file) :
        Len(Split(file[l])) = 2 /\ IntBase10(Split(file[l])[2]).ok

\* the amount on the last line that names address a
LastAmountOf(a) ==
    LET last == CHOOSE l \in 1..Len(file) :
                    /\ Split(file[l])[1] = a
                    /\ \A m \in (l + 1)..Len(file) : Split(file[m])[1] # a
    IN  IntBase10(Split(file[last])[2]).val

\* where an address stands in read_addr's result: <<group, place>>
PlacesOf(a) ==
    { gk \in { <<g, k>> : g \in 1..Len(addrByAmount), k \in 1..MaxLines } :
          /\ gk[2] <= Len(addrByAmount[gk[1]][2])
          /\ addrByAmount[gk[1]][2][gk[2]] = a }

\* C13: for a file of two-token lines, address and integer amount, read_addr
\* returns a grouping with one key per amount, in which every distinct address
\* of the file stands exactly once, under the amount of its last line, and
\* nothing else stands.
C13_LastAmountWins ==
    (pc # "main" /\ WellFormed) =>
        /\ err = <<>> \/ err[1] # "read_addr"
        /\ \A a \in FileAddrs :
               /\ Cardinality(PlacesOf(a)) = 1
               /\ \A gk \in PlacesOf(a) : addrByAmount[gk[1]][1] = LastAmountOf(a)
        /\ \A g \in 1..Len(addrByAmount) :
               /\ addrByAmount[g][2] # <<>>
               /\ \A k \in 1..Len(addrByAmount[g][2]) : addrByAmount[g][2][k] \in FileAddrs
               /\ \A h \in 1..Len(addrByAmount) :
                      g # h => addrByAmount[g][1] # addrByAmount[h][1]

\* an address named with amount 5 and then with amount 10 is loaded under 10 only
C13_Witness ==
    /\ file = <<Line(AddrShard0, <<"5">>), Line(AddrShard0, <<"1", "0">>)>>
    /\ pc = "getNetworkId"
    /\ addrByAmount = <<<<10, <<AddrShard0>>>>>>

\* the tokens of a line, counted by the places where one starts
TokenCount(s) ==
    Cardinality({ i \in 1..Len(s) :
                    s[i] \notin Whitespace /\ (i = 1 \/ s[i - 1] \in Whitespace) })

\* some line is not two tokens
Malformed == \E l \in 1..Len(file) : TokenCount(file[l]) # 2

\* C14: with a line of one token, of three tokens or of none in the file, the
\* run ends in read_addr's ValueError: nothing is loaded, no request goes on
\* the wire, no flow exists, the node has seen no transaction, nothing is
\* printed.
C14_MalformedLineFatal ==
    Malformed =>
        /\ pc \in {"main", "aborted"}
        /\ pc = "aborted" => err = <<"read_addr", "ValueError">>
        /\ addrByAmount = <<>>
        /\ \A c \in Callers : rpc[c].state = "idle" /\ rpc[c].wire = <<>>
        /\ tasks = <<>>
        /\ node.pool = {} /\ node.blocks = <<>>
        /\ printed = <<>> /\ skipped = <<>>

\* a good line is followed by a line of three tokens: the run has aborted
C14_Witness ==
    /\ pc = "aborted"
    /\ Len(file) = 2
    /\ Len(Split(file[1])) = 2 /\ IntBase10(Split(file[1])[2]).ok
    /\ Len(Split(file[2])) = 3

\* the flows of the same shard that were created before flow i
EarlierOfShard(i) == { j \in 1..(i - 1) : SameShard(i, j) }

\* the amounts under which read_addr's result lists address a
AmountsOf(a) ==
    { addrByAmount[g][1] : g \in { h \in 1..Len(addrByAmount) :
          \E k \in 1..Len(addrByAmount[h][2]) : addrByAmount[h][2][k] = a } }

\* C15: the transaction of a flow has the value amount * 10 ** 18 for the
\* amount its address is loaded under, the nonce the node answered for the
\* sender of its shard (as many as that sender has confirmed), the network id
\* of the node, and the recipient and shard id that the address spells; every
\* submission the flow puts on the wire, and all the node ever holds, is that
\* transaction.
C15_TransactionFields ==
    /\ \A i \in 1..Len(tasks) :
           LET t == tasks[i]
           IN  /\ t.tx # NoTx =>
                      /\ AmountsOf(t.addr) = {t.tx.value.coef}
                      /\ t.tx.value.exp10 = 18
                      /\ t.tx.nonce = t.nonce
                      /\ t.tx.nonce = Cardinality(EarlierOfShard(i))
                      /\ t.tx.networkId = node.networkId
                      /\ t.tx.to = SubSeq(t.addr, 3, 42)
                      /\ t.tx.toFullShardId = Low32(t.addr)
                      /\ t.tx.fromFullShardId = t.shard
               /\ rpc[i].method = "sendRawTransaction" =>
                      \A k \in 1..Len(rpc[i].wire) : rpc[i].wire[k].args = t.tx
    /\ \A tx \in node.pool : \E i \in 1..Len(tasks) : tasks[i].tx = tx
    /\ \A h \in 1..Len(node.blocks) :
           \E i \in 1..Len(tasks) : TxHash(tasks[i].tx) = node.blocks[h].txId

\* the second flow of a shard has submitted 10 * 10 ** 18 with nonce 1
C15_Witness ==
    \E i \in 1..Len(tasks) :
        /\ tasks[i].pc = "sleep"
        /\ tasks[i].tx.nonce = 1
        /\ tasks[i].tx.value = [coef |-> 10, exp10 |-> 18]
        /\ tasks[i].tx \in node.pool

\* the result lines of batch b, and its flows in the order of their creation
LinesOf(b) == SelectSeq(printed, LAMBDA l : l.batch = b)

FlowsOf(b) == SelectSeq([i \in 1..Len(tasks) |-> i], LAMBDA i : tasks[i].batch = b)

\* C16: the flows of a batch are created in the order in which byShard holds
\* their shards, gather() is given them in that order, and once the batch is
\* printed its lines are those flows' results in that same order, numbered
\* from 0 in every batch, whichever flow was confirmed first.
C16_PrintInLaunchOrder ==
    /\ pc \in {"launch", "gather"} =>
           /\ futures = FlowsOf(batch)
           /\ LinesOf(batch) = <<>>
           /\ \A k \in 1..Len(futures) :
                  \E m \in 1..Len(toFund) :
                      /\ toFund[m] = tasks[futures[k]].addr
                      /\ k < Len(futures) =>
                             \E n \in (m + 1)..Len(toFund) :
                                 toFund[n] = tasks[futures[k + 1]].addr
           /\ \A i, j \in 1..Len(futures) :
                  i < j => KeyIndex(byShard, tasks[futures[i]].shard)
                               < KeyIndex(byShard, tasks[futures[j]].shard)
    /\ \A b \in 1..batch :
           (b < batch \/ pc \in {"round", "group", "done"}) =>
               /\ Len(LinesOf(b)) = Len(FlowsOf(b))
               /\ \A k \in 1..Len(LinesOf(b)) :
                      /\ LinesOf(b)[k].idx = k - 1
                      /\ LinesOf(b)[k].txId = tasks[FlowsOf(b)[k]].txId
                      /\ LinesOf(b)[k].height = tasks[FlowsOf(b)[k]].height

\* a batch of two is printed: line 0 is of the flow launched first, which was
\* confirmed after the flow of line 1
C16_Witness ==
    \E k \in 1..(Len(printed) - 1) :
        /\ printed[k].batch = printed[k + 1].batch
        /\ printed[k].idx = 0 /\ printed[k + 1].idx = 1
        /\ printed[k].height > printed[k + 1].height

\* the addresses of a list of shard s, with the shard count of the run
InShard(addrs, s) ==
    { k \in 1..Len(addrs) : IntBase16(LastChars(addrs[k], 8)).val % shardSize = s }

\* the length of the longest shard queue of amount group g
Longest(g) ==
    LET sizes == { Cardinality(InShard(addrByAmount[g][2], s)) : s \in 0..(shardSize - 1) }
    IN  CHOOSE n \in sizes : \A m \in sizes : m <= n

RECURSIVE RoundsOfGroups(_)
RoundsOfGroups(g) == IF g = 0 THEN 0 ELSE Longest(g) + RoundsOfGroups(g - 1)

\* the length of the longest queue left in byShard
LongestLeft ==
    LET sizes == { Len(byShard[q][2]) : q \in 1..Len(byShard) } \cup {0}
    IN  CHOOSE n \in sizes : \A m \in sizes : m <= n

\* C17: a group is left only with every shard queue empty, after as many
\* rounds as its longest shard queue was long, whether or not a round launched
\* a flow; within a group, the rounds done and the longest queue left add up to
\* that length.
C17_RoundsUntilEmpty ==
    /\ (pc \in {"group", "done"} /\ amountIdx >= 1) =>
           /\ \A q \in 1..Len(byShard) : byShard[q][2] = <<>>
           /\ batch = RoundsOfGroups(amountIdx - 1)
    /\ pc \in {"round", "launch", "gather"} =>
           batch + LongestLeft = RoundsOfGroups(amountIdx)

\* the first round of a group popped one address and skipped it: the group
\* went on, and its second round has launched a flow
C17_Witness ==
    /\ Len(addrByAmount) = 1
    /\ batch = 2
    /\ Len(skipped) = 1
    /\ Len(tasks) = 1 /\ tasks[1].batch = 2 /\ tasks[1].pc = "returned"
    /\ pc = "done"

\* the addresses of shard s in the list loaded for the current amount, in the
\* order of that list
LoadedOfShard(s) ==
    SelectSeq(addrByAmount[amountIdx][2],
              LAMBDA a : IntBase16(LastChars(a, 8)).val % shardSize = s)

\* the rounds of the current amount group that have popped
RoundsDone == batch - RoundsOfGroups(amountIdx - 1)

\* the place of an address in the list loaded for amount group g
PlaceIn(g, a) == CHOOSE k \in 1..Len(addrByAmount[g][2]) : addrByAmount[g][2][k] = a

GroupOf(amount) == CHOOSE g \in 1..Len(addrByAmount) : addrByAmount[g][1] = amount

\* C18: after r rounds of a group, the queue of every shard is the loaded list
\* of that shard without its last r entries, and round r has taken, of every
\* shard that had r entries or more, the r-th entry from the end; so of two
\* flows of one group and one shard, the one funded first stands later in the
\* loaded list.
C18_LastInFirstOut ==
    /\ pc \in {"round", "launch", "gather"} =>
           \A q \in 1..Len(byShard) :
               LET loaded == LoadedOfShard(byShard[q][1])
                   left   == IF Len(loaded) > RoundsDone THEN Len(loaded) - RoundsDone ELSE 0
               IN  /\ byShard[q][2] = SubSeq(loaded, 1, left)
                   /\ (pc # "round" /\ Len(loaded) >= RoundsDone) =>
                          \E m \in 1..Len(toFund) :
                              toFund[m] = loaded[Len(loaded) - RoundsDone + 1]
    /\ pc \in {"launch", "gather"} =>
           \A m \in 1..Len(toFund) :
               \E q \in 1..Len(byShard) :
                   LET loaded == LoadedOfShard(byShard[q][1])
                   IN  /\ Len(loaded) >= RoundsDone
                       /\ toFund[m] = loaded[Len(loaded) - RoundsDone + 1]
    /\ \A i, j \in 1..Len(tasks) :
           (i < j /\ SameShard(i, j) /\ tasks[i].amount = tasks[j].amount) =>
               /\ tasks[i].batch < tasks[j].batch
               /\ PlaceIn(GroupOf(tasks[i].amount), tasks[i].addr)
                      > PlaceIn(GroupOf(tasks[j].amount), tasks[j].addr)

\* of two addresses of one amount and one shard, the one loaded second was
\* funded in the first round and the one loaded first is being funded in the
\* second
C18_Witness ==
    \E i, j \in 1..Len(tasks) :
        /\ i < j /\ SameShard(i, j) /\ tasks[i].amount = tasks[j].amount
        /\ PlaceIn(GroupOf(tasks[i].amount), tasks[i].addr) = 2
        /\ PlaceIn(GroupOf(tasks[j].amount), tasks[j].addr) = 1
        /\ tasks[i].pc = "returned"
        /\ tasks[j].pc = "sleep"

====
